---- MODULE Spec2Model ----
(***************************************************************************)
(* Cloudlet VMM orchestrator: the gRPC service VmmService of               *)
(* src/vmm/src/grpc/server.rs.  The model follows the handler `run` one    *)
(* statement group at a time, the three artifact resolvers it calls        *)
(* (get_kernel, get_initramfs, build_agent), the background VMM task it    *)
(* spawns, the in-guest agent's response stream and the caller reading the *)
(* returned ReceiverStream.                                                *)
(***************************************************************************)
EXTENDS Integers, Sequences, FiniteSets, TLC

\* ---------------------------------------------------------------- bounds
NumReq == 2         \* handler invocations (tokio tasks) that may exist
MaxFrames == 5      \* frames the agent emits on one response stream
MaxCalls == 3       \* direct resolver calls made one after the other

\* ------------------------------------------------------ program constants
ChannelCapacity == 4    \* tokio::sync::mpsc::channel(4)

Req == 1 .. NumReq

HOST_IP == <<172, 29, 0, 1>>
HOST_NETMASK == <<255, 255, 0, 0>>
GUEST_IP == <<172, 29, 0, 2>>

\* current_dir(): the install tree the server process was started in
CurrDir == "<install>"

\* ------------------------------------------------------------- languages
\* Language tags a request can carry on the wire (i32); 3 is an unknown tag
Tags == 0 .. 3

\* prost-generated Language::from_i32: Some(variant) for a known tag
LanguageFromI32(tag) ==
    CASE tag = 0 -> "Rust"
      [] tag = 1 -> "Python"
      [] tag = 2 -> "Node"
      [] OTHER -> "None"

\* prost-generated Language::as_str_name
AsStrName(language) ==
    CASE language = "Rust" -> "RUST"
      [] language = "Python" -> "PYTHON"
      [] language = "Node" -> "NODE"

\* str::to_lowercase on the three enum names
ToLowercase(s) ==
    CASE s = "RUST" -> "rust"
      [] s = "PYTHON" -> "python"
      [] s = "NODE" -> "node"

AgentLanguageSwapped(tag) ==
    CASE tag = 0 -> "python"
      [] tag = 1 -> "rust"
      [] tag = 2 -> "node"
      [] OTHER -> "unreachable"

\* the match of get_agent_request; "unreachable" is the panic arm
AgentLanguage(tag) ==
    CASE tag = 0 -> "rust"
      [] tag = 1 -> "python"
      [] tag = 2 -> "node"
      [] OTHER -> "unreachable"

LanguageNames == {"rust", "python", "node"}

\* the wire encoding read backwards: 0 = Rust, 1 = Python, 2 = Node
NameToTag(name) ==
    CASE name = "rust" -> 0
      [] name = "python" -> 1
      [] name = "node" -> 2
      [] OTHER -> -1

\* ----------------------------------------------------------------- paths
\* OsString::push concatenates; a path is kept as the tuple of pushed parts
KernelPath(curr_dir) ==
    <<curr_dir, "/tools/kernel/linux-cloud-hypervisor/arch/x86/boot/compressed/vmlinux.bin">>

InitramfsPath(curr_dir, language) ==
    <<curr_dir, "/tools/rootfs/", language, ".img">>

AgentPath(curr_dir) ==
    <<curr_dir, "/target/x86_64-unknown-linux-musl/release/agent">>

\* format!("{}:alpine", language)
ImageTag(language) == <<language, ":alpine">>

NoPath == <<>>

Paths ==
    {KernelPath(CurrDir), AgentPath(CurrDir)}
        \cup {InitramfsPath(CurrDir, l) : l \in LanguageNames}

\* ---------------------------------------------------------------- frames
\* agent::ExecuteResponse values the agent may put on its stream
FrameVals ==
    { [stdout |-> "out", stderr |-> "", exit_code |-> 0],
      [stdout |-> "", stderr |-> "err", exit_code |-> 7] }

NoFrame == [stdout |-> "", stderr |-> "", exit_code |-> -1]

\* the struct literal copying an agent frame into vmmorchestrator::ExecuteResponse
VmmResponse(response) ==
    [stdout |-> response.stdout,
     stderr |-> response.stderr,
     exit_code |-> response.exit_code]

StatusFromVmmErrorsSwapped(error) ==
    CASE error = "VmmNew" -> [code |-> "Internal", message |-> "Error configuring VMM"]
      [] error = "VmmConfigure" -> [code |-> "Internal", message |-> "Error creating VMM"]
      [] error = "VmmRun" -> [code |-> "Internal", message |-> "Error running VMM"]

\* impl From<VmmErrors> for Status
StatusFromVmmErrors(error) ==
    CASE error = "VmmNew" -> [code |-> "Internal", message |-> "Error creating VMM"]
      [] error = "VmmConfigure" -> [code |-> "Internal", message |-> "Error configuring VMM"]
      [] error = "VmmRun" -> [code |-> "Internal", message |-> "Error running VMM"]

\* a tonic::Status that the agent client handed back (execute / message error)
AgentStatus == [code |-> "Unavailable", message |-> "agent transport error"]

\* what the Run rpc has given its caller
NoResult == [kind |-> "none", code |-> "", message |-> ""]
StreamResult == [kind |-> "stream", code |-> "Ok", message |-> ""]
PanicResult == [kind |-> "panic", code |-> "", message |-> ""]
ErrResult(status) ==
    [kind |-> "status", code |-> status.code, message |-> status.message]

VARIABLES
    pc,         \* per handler: the statement of server.rs it is about to execute
    stack,      \* per handler: return labels of the resolver calls in progress
    request,    \* per handler: the RunVmmRequest (language tag)
    local,      \* per handler: kernel_path, initramfs_path, agent_file_name, language
                \* and, for a direct resolver call, the function called
    retval,     \* per handler: value returned by the last resolver call
    files,      \* host filesystem: the artifact paths that exist
    builds,     \* per path: how many times its build step was invoked
    built,      \* per path: how many of those invocations produced the file
    failed,     \* per handler: a build step it invoked left the artifact missing
    vm,         \* per handler: lifecycle of the VMM it constructed
    agent,      \* per handler: the agent's response stream
    response,   \* per handler: the frame read by message() and not yet sent
    chan,       \* per handler: frames buffered in the mpsc channel
    rx,         \* per handler: the receiver: none, handler, caller, ended, dropped
    delivered,  \* per handler: frames the caller took from the RunStream
    result,     \* per handler: what the Run rpc gave the caller
    calls,      \* log of the direct resolver calls that returned
    events,     \* per handler: the external operations of its current call, in order
    task        \* per handler: the spawned VMM task: none, running, Ok, Err

vars ==
    <<pc, stack, request, local, retval, files, builds, built, failed, vm,
      agent, response, chan, rx, delivered, result, calls, events, task>>

NoLocal ==
    [kernel_path |-> NoPath, initramfs_path |-> NoPath,
     agent_file_name |-> NoPath, language |-> "", agent_language |-> "",
     grpc_client |-> "", fn |-> ""]

\* RunVmmRequest: the fields run and get_agent_request read
Texts == {"", "x"}

EmptyFields(q) == {f \in {"workload_name", "code", "env"} : q[f] = ""}

\* every tag with all fields filled, and tag 0 with one field left empty
Requests ==
    {q \in [workload_name : Texts, language : Tags, code : Texts, env : Texts] :
        \/ EmptyFields(q) = {}
        \/ q.language = 0 /\ Cardinality(EmptyFields(q)) = 1}

FullRequests == {q \in Requests : EmptyFields(q) = {}}

NoRequest == [workload_name |-> "", language |-> 0, code |-> "", env |-> ""]

NoAgent == [emitted |-> <<>>, read |-> 0, state |-> "idle"]

Init ==
    /\ pc = [r \in Req |-> "idle"]
    /\ stack = [r \in Req |-> <<>>]
    /\ request = [r \in Req |-> NoRequest]
    /\ local = [r \in Req |-> NoLocal]
    /\ retval = [r \in Req |-> NoPath]
    /\ files = {}
    /\ builds = [p \in Paths |-> 0]
    /\ built = [p \in Paths |-> 0]
    /\ failed = [r \in Req |-> FALSE]
    /\ vm = [r \in Req |-> "none"]
    /\ agent = [r \in Req |-> NoAgent]
    /\ response = [r \in Req |-> NoFrame]
    /\ chan = [r \in Req |-> <<>>]
    /\ rx = [r \in Req |-> "none"]
    /\ delivered = [r \in Req |-> <<>>]
    /\ result = [r \in Req |-> NoResult]
    /\ calls = <<>>
    /\ events = [r \in Req |-> <<>>]
    /\ task = [r \in Req |-> "none"]

\* one external operation: a file check, a build step, a VMM call, an agent call
Event(op, ok, path) == [op |-> op, ok |-> ok, path |-> path]

Log(r, event) == events' = [events EXCEPT ![r] = Append(@, event)]

NoLog == UNCHANGED events

\* ------------------------------------------------------------- resolvers
TryExistsNever(path) == FALSE

\* Path::try_exists
TryExists(path) == path \in files

\* `Ok(path)` at the end of a resolver: back to the caller's next statement
Return(r, value) ==
    /\ pc' = [pc EXCEPT ![r] = Head(stack[r])]
    /\ stack' = [stack EXCEPT ![r] = Tail(stack[r])]
    /\ retval' = [retval EXCEPT ![r] = value]

\* Command::output() of a build step: it ran to its end; ok = it exited 0 and
\* left the artifact at `path`, otherwise it exited non-zero and left nothing.
\* The exit status is only logged.
BuildStep(r, path, ok) ==
    /\ builds' = [builds EXCEPT ![path] = @ + 1]
    /\ built' = [built EXCEPT ![path] = @ + (IF ok THEN 1 ELSE 0)]
    /\ files' = IF ok THEN files \cup {path} ELSE files
    /\ failed' = [failed EXCEPT ![r] = @ \/ ~ok]

NoBuild == UNCHANGED <<files, builds, built, failed>>

Rest == <<request, vm, agent, response, chan, rx, delivered, result, calls, task>>

\* get_kernel, up to the `if !kernel_exists`
GetKernel(r) ==
    /\ pc[r] = "get_kernel"
    /\ IF TryExists(KernelPath(CurrDir))
         THEN Return(r, KernelPath(CurrDir))
         ELSE /\ pc' = [pc EXCEPT ![r] = "mkkernel"]
              /\ UNCHANGED <<stack, retval>>
    /\ NoLog
    /\ NoBuild
    /\ UNCHANGED <<local, Rest>>

\* get_kernel: sh ./tools/kernel/mkkernel.sh, then Ok(path)
MkKernel(r) ==
    /\ pc[r] = "mkkernel"
    /\ \E ok \in BOOLEAN :
         /\ BuildStep(r, KernelPath(CurrDir), ok)
         /\ Log(r, Event("mkkernel", ok, KernelPath(CurrDir)))
    /\ Return(r, KernelPath(CurrDir))
    /\ UNCHANGED <<local, Rest>>

GetInitramfsNoAgent(r) ==
    /\ pc[r] = "get_initramfs"
    /\ IF TryExists(InitramfsPath(CurrDir, local[r].language))
         THEN Return(r, InitramfsPath(CurrDir, local[r].language))
         ELSE /\ pc' = [pc EXCEPT ![r] = "mkrootfs"]
              /\ UNCHANGED <<stack, retval>>
    /\ Log(r, Event("get_initramfs",
                    TryExists(InitramfsPath(CurrDir, local[r].language)),
                    InitramfsPath(CurrDir, local[r].language)))
    /\ NoBuild
    /\ UNCHANGED <<local, Rest>>

\* get_initramfs, up to the `if !rootfs_exists`; the call of build_agent
GetInitramfs(r) ==
    /\ pc[r] = "get_initramfs"
    /\ IF TryExists(InitramfsPath(CurrDir, local[r].language))
         THEN Return(r, InitramfsPath(CurrDir, local[r].language))
         ELSE /\ pc' = [pc EXCEPT ![r] = "build_agent"]
              /\ stack' = [stack EXCEPT ![r] = <<"mkrootfs">> \o @]
              /\ UNCHANGED retval
    /\ Log(r, Event("get_initramfs",
                    TryExists(InitramfsPath(CurrDir, local[r].language)),
                    InitramfsPath(CurrDir, local[r].language)))
    /\ NoBuild
    /\ UNCHANGED <<local, Rest>>

\* build_agent, up to the `if !agent_exists`
BuildAgent(r) ==
    /\ pc[r] = "build_agent"
    /\ IF TryExists(AgentPath(CurrDir))
         THEN Return(r, AgentPath(CurrDir))
         ELSE /\ pc' = [pc EXCEPT ![r] = "cargo_build"]
              /\ UNCHANGED <<stack, retval>>
    /\ Log(r, Event("build_agent", TryExists(AgentPath(CurrDir)), AgentPath(CurrDir)))
    /\ NoBuild
    /\ UNCHANGED <<local, Rest>>

\* build_agent: cargo build --release --bin agent, then Ok(agent_file_name)
CargoBuild(r) ==
    /\ pc[r] = "cargo_build"
    /\ \E ok \in BOOLEAN :
         /\ BuildStep(r, AgentPath(CurrDir), ok)
         /\ Log(r, Event("cargo_build", ok, AgentPath(CurrDir)))
    /\ Return(r, AgentPath(CurrDir))
    /\ UNCHANGED <<local, Rest>>

\* get_initramfs: agent_file_name = build_agent().unwrap(), then
\* sh ./tools/rootfs/mkrootfs.sh image agent_file_name path, then Ok(path)
MkRootfs(r) ==
    /\ pc[r] = "mkrootfs"
    /\ local' = [local EXCEPT ![r].agent_file_name = retval[r]]
    /\ \E ok \in BOOLEAN :
         /\ BuildStep(r, InitramfsPath(CurrDir, local[r].language), ok)
         /\ Log(r, Event("mkrootfs", ok, retval[r]))
    /\ Return(r, InitramfsPath(CurrDir, local[r].language))
    /\ UNCHANGED Rest

Resolve(r) ==
    \/ GetKernel(r)
    \/ MkKernel(r)
    \/ GetInitramfs(r)
    \/ BuildAgent(r)
    \/ CargoBuild(r)
    \/ MkRootfs(r)

\* ------------------------------------------- direct calls of the resolvers
\* get_kernel, get_initramfs and build_agent are pub: a caller invokes one
\* of them on the service, one call after the other has returned.
DirectFns == {"get_kernel", "get_initramfs", "build_agent"}

DirectCall(r, fn, language) ==
    /\ \A q \in Req : pc[q] = "idle"
    /\ Len(calls) < MaxCalls
    /\ pc' = [pc EXCEPT ![r] = fn]
    /\ stack' = [stack EXCEPT ![r] = <<"direct_ret">>]
    /\ local' = [local EXCEPT ![r] =
                    [NoLocal EXCEPT !.fn = fn,
                                    !.language = IF fn = "get_initramfs"
                                                   THEN language ELSE ""]]
    /\ events' = [events EXCEPT ![r] = <<>>]
    /\ UNCHANGED <<retval, Rest>>
    /\ NoBuild

DirectReturn(r) ==
    /\ pc[r] = "direct_ret"
    /\ calls' = Append(calls, [fn |-> local[r].fn, arg |-> local[r].language,
                               path |-> retval[r]])
    /\ pc' = [pc EXCEPT ![r] = "idle"]
    /\ local' = [local EXCEPT ![r] = NoLocal]
    /\ retval' = [retval EXCEPT ![r] = NoPath]
    /\ events' = [events EXCEPT ![r] = <<>>]
    /\ UNCHANGED <<stack, request, vm, agent, response, chan, rx, delivered,
                   result, task>>
    /\ NoBuild

NextSeq ==
    \E r \in Req :
        \/ \E fn \in DirectFns, l \in LanguageNames : DirectCall(r, fn, l)
        \/ Resolve(r)
        \/ DirectReturn(r)

SpecSeq == Init /\ [][NextSeq]_vars

\* ------------------------------------------------------------ handler run
RunStartStreamFirst(r, req) ==
    /\ pc[r] = "idle"
    /\ request' = [request EXCEPT ![r] = req]
    /\ chan' = [chan EXCEPT ![r] = <<>>]
    /\ rx' = [rx EXCEPT ![r] = "caller"]
    /\ UNCHANGED <<events, task>>
    /\ pc' = [pc EXCEPT ![r] = "get_kernel"]
    /\ stack' = [stack EXCEPT ![r] = <<"from_i32">>]
    /\ UNCHANGED <<local, retval, vm, agent, response, delivered, result, calls>>
    /\ NoBuild

\* lines 172-181: the channel, the constants, current_dir, the call of get_kernel
RunStart(r, req) ==
    /\ pc[r] = "idle"
    /\ request' = [request EXCEPT ![r] = req]
    /\ chan' = [chan EXCEPT ![r] = <<>>]
    /\ rx' = [rx EXCEPT ![r] = "handler"]
    /\ UNCHANGED <<events, task>>
    /\ pc' = [pc EXCEPT ![r] = "get_kernel"]
    /\ stack' = [stack EXCEPT ![r] = <<"from_i32">>]
    /\ UNCHANGED <<local, retval, vm, agent, response, delivered, result, calls>>
    /\ NoBuild

\* the handler's future ends (a return, a panic or its drop): every local goes,
\* the sender and, unless it was moved into the Response, the receiver with
\* the frames buffered in the channel
EndHandler(r, how, res) ==
    /\ pc' = [pc EXCEPT ![r] = how]
    /\ result' = [result EXCEPT ![r] = res]
    /\ rx' = [rx EXCEPT ![r] = "dropped"]
    /\ chan' = [chan EXCEPT ![r] = <<>>]
    /\ response' = [response EXCEPT ![r] = NoFrame]

\* lines 181-188: kernel_path = get_kernel().unwrap(); Language::from_i32(..)
\* .expect("Unknown language"); the call of get_initramfs
FromI32(r) ==
    /\ pc[r] = "from_i32"
    /\ IF LanguageFromI32(request[r].language) = "None"
         THEN /\ EndHandler(r, "panicked", PanicResult)
              /\ UNCHANGED <<stack, local>>
         ELSE /\ local' = [local EXCEPT
                    ![r].kernel_path = retval[r],
                    ![r].language =
                        ToLowercase(AsStrName(LanguageFromI32(request[r].language)))]
              /\ pc' = [pc EXCEPT ![r] = "get_initramfs"]
              /\ stack' = [stack EXCEPT ![r] = <<"vmm_new">>]
              /\ UNCHANGED <<result, rx, chan, response>>
    /\ UNCHANGED <<request, retval, vm, agent, delivered, calls, events, task>>
    /\ NoBuild

\* VMM::new opens KVM and allocates the tap: it succeeds or fails whatever
\* other VMs exist
VmmNewOutcomes == BOOLEAN

\* lines 188-190: initramfs_path = get_initramfs().unwrap();
\* VMM::new(HOST_IP, HOST_NETMASK, GUEST_IP).map_err(VmmErrors::VmmNew)?
VmmNew(r) ==
    /\ pc[r] = "vmm_new"
    /\ local' = [local EXCEPT ![r].initramfs_path = retval[r]]
    /\ \E ok \in VmmNewOutcomes :
         /\ Log(r, Event("new", ok, NoPath))
         /\ IF ok
              THEN /\ vm' = [vm EXCEPT ![r] = "Fresh"]
                   /\ pc' = [pc EXCEPT ![r] = "configure"]
                   /\ UNCHANGED <<result, rx, chan, response>>
              ELSE /\ EndHandler(r, "returned",
                                 ErrResult(StatusFromVmmErrors("VmmNew")))
                   /\ UNCHANGED vm
    /\ UNCHANGED <<stack, request, retval, agent, delivered, calls, task>>
    /\ NoBuild

\* lines 193-194: vmm.configure(1, 4000, kernel_path, &Some(initramfs_path))
\* .map_err(VmmErrors::VmmConfigure)?  -- on Err the VMM value is dropped.
\* configure loads the two files: it cannot succeed when one is missing.
VmmConfigure(r) ==
    /\ pc[r] = "configure"
    /\ \E ok \in BOOLEAN :
         /\ ok => {local[r].kernel_path, local[r].initramfs_path} \subseteq files
         /\ Log(r, Event("configure", ok, NoPath))
         /\ IF ok
              THEN /\ vm' = [vm EXCEPT ![r] = "Configured"]
                   /\ pc' = [pc EXCEPT ![r] = "spawn_vmm"]
                   /\ UNCHANGED <<result, rx, chan, response>>
              ELSE /\ EndHandler(r, "returned",
                                 ErrResult(StatusFromVmmErrors("VmmConfigure")))
                   /\ vm' = [vm EXCEPT ![r] = "Terminated"]
    /\ UNCHANGED <<stack, request, local, retval, agent, delivered, calls, task>>
    /\ NoBuild

SpawnVmmUnconfigured(r) ==
    /\ pc[r] = "configure"
    /\ vm' = [vm EXCEPT ![r] = "Running"]
    /\ task' = [task EXCEPT ![r] = "running"]
    /\ Log(r, Event("spawn", TRUE, NoPath))
    /\ pc' = [pc EXCEPT ![r] = "connect"]
    /\ UNCHANGED <<stack, request, local, retval, agent, response, chan, rx,
                   delivered, result, calls>>
    /\ NoBuild

\* lines 197-202: tokio::spawn(async move { vmm.run() ... }); the JoinHandle
\* is dropped at once, which detaches the task
SpawnVmm(r) ==
    /\ pc[r] = "spawn_vmm"
    /\ vm' = [vm EXCEPT ![r] = "Running"]
    /\ task' = [task EXCEPT ![r] = "running"]
    /\ Log(r, Event("spawn", TRUE, NoPath))
    /\ pc' = [pc EXCEPT ![r] = "connect"]
    /\ UNCHANGED <<stack, request, local, retval, agent, response, chan, rx,
                   delivered, result, calls>>
    /\ NoBuild

\* lines 199-201, in the spawned task: vmm.run() returns (the guest halted or
\* a vCPU faulted); an Err is logged and nothing else
VmmRunReturns(r) ==
    /\ vm[r] = "Running"
    /\ vm' = [vm EXCEPT ![r] = "Terminated"]
    /\ \E ok \in BOOLEAN : task' = [task EXCEPT ![r] = IF ok THEN "Ok" ELSE "Err"]
    /\ NoLog
    /\ UNCHANGED <<pc, stack, request, local, retval, agent, response, chan, rx,
                   delivered, result, calls>>
    /\ NoBuild

ConnectThenAlwaysExecute(r) ==
    /\ pc[r] = "connect"
    /\ \E ok \in BOOLEAN :
         /\ ok => vm[r] = "Running"
         /\ Log(r, Event("connect", ok, NoPath))
         /\ pc' = [pc EXCEPT ![r] = "execute"]
         /\ local' = [local EXCEPT
               ![r].grpc_client = IF ok THEN "Ok" ELSE "Err",
               ![r].agent_language = AgentLanguage(request[r].language)]
    /\ UNCHANGED <<stack, request, retval, vm, agent, response, chan, rx,
                   delivered, result, calls, task>>
    /\ NoBuild

\* lines 205-215: sleep 2 s, one WorkloadClient::new(GUEST_IP, 50051), awaited;
\* then get_agent_request.  The agent answers only from a running guest.
Connect(r) ==
    /\ pc[r] = "connect"
    /\ \E ok \in BOOLEAN :
         /\ ok => vm[r] = "Running"
         /\ Log(r, Event("connect", ok, NoPath))
         /\ pc' = [pc EXCEPT ![r] = IF ok THEN "execute" ELSE "respond"]
         /\ local' = [local EXCEPT
               ![r].grpc_client = IF ok THEN "Ok" ELSE "Err",
               ![r].agent_language = AgentLanguage(request[r].language)]
    /\ UNCHANGED <<stack, request, retval, vm, agent, response, chan, rx,
                   delivered, result, calls, task>>
    /\ NoBuild

\* lines 218-222: client.execute(agent_request).await?
Execute(r) ==
    /\ pc[r] = "execute"
    /\ \E ok \in BOOLEAN :
         /\ ok => vm[r] = "Running"
         /\ Log(r, Event("execute", ok, NoPath))
         /\ IF ok
              THEN /\ agent' = [agent EXCEPT ![r].state = "open"]
                   /\ pc' = [pc EXCEPT ![r] = "message"]
                   /\ UNCHANGED <<result, rx, chan, response>>
              ELSE /\ EndHandler(r, "returned", ErrResult(AgentStatus))
                   /\ UNCHANGED agent
    /\ UNCHANGED <<stack, request, local, retval, vm, delivered, calls, task>>
    /\ NoBuild

\* line 225: response_stream.message().await?  -- Some(frame), None or Err
Message(r) ==
    /\ pc[r] = "message"
    /\ \/ /\ agent[r].read < Len(agent[r].emitted)
          /\ response' = [response EXCEPT ![r] = agent[r].emitted[agent[r].read + 1]]
          /\ agent' = [agent EXCEPT ![r].read = @ + 1]
          /\ pc' = [pc EXCEPT ![r] = "send"]
          /\ UNCHANGED <<result, rx, chan>>
       \/ /\ agent[r].read = Len(agent[r].emitted)
          /\ agent[r].state = "closed"
          /\ pc' = [pc EXCEPT ![r] = "respond"]
          /\ UNCHANGED <<agent, response, result, rx, chan>>
       \/ /\ agent[r].read = Len(agent[r].emitted)
          /\ agent[r].state = "error"
          /\ EndHandler(r, "returned", ErrResult(AgentStatus))
          /\ UNCHANGED agent
    /\ UNCHANGED <<stack, request, local, retval, vm, delivered, calls>>
    /\ NoBuild
    /\ UNCHANGED <<events, task>>

EnqueueFront(queue, value) == <<value>> \o queue

\* mpsc::Sender::send: the value goes to the back of the queue
Enqueue(queue, value) == Append(queue, value)

HasCapacityAlways(queue) == TRUE

\* mpsc::channel(4): a send gets a permit while fewer than 4 values are queued
HasCapacity(queue) == Len(queue) < ChannelCapacity

\* lines 226-231: tx.send(Ok(vmm_response)).await.unwrap(); send suspends
\* while the channel holds ChannelCapacity values
Send(r) ==
    /\ pc[r] = "send"
    /\ HasCapacity(chan[r])
    /\ chan' = [chan EXCEPT ![r] = Enqueue(@, VmmResponse(response[r]))]
    /\ response' = [response EXCEPT ![r] = NoFrame]
    /\ pc' = [pc EXCEPT ![r] = "message"]
    /\ UNCHANGED <<stack, request, local, retval, vm, agent, rx, delivered,
                   result, calls>>
    /\ NoBuild
    /\ UNCHANGED <<events, task>>

\* lines 234-239: (Err(e) => error!(..)) and Ok(Response::new(ReceiverStream::new(rx)));
\* tx is dropped as run returns, the receiver moves to the caller
Respond(r) ==
    /\ pc[r] = "respond"
    /\ pc' = [pc EXCEPT ![r] = "returned"]
    /\ result' = [result EXCEPT ![r] = StreamResult]
    /\ rx' = [rx EXCEPT ![r] = "caller"]
    /\ UNCHANGED <<stack, request, local, retval, vm, agent, response, chan,
                   delivered, calls>>
    /\ NoBuild
    /\ UNCHANGED <<events, task>>

Handler(r) ==
    \/ Resolve(r)
    \/ FromI32(r)
    \/ VmmNew(r)
    \/ VmmConfigure(r)
    \/ SpawnVmm(r)
    \/ Connect(r)
    \/ Execute(r)
    \/ Message(r)
    \/ Send(r)
    \/ Respond(r)

\* ------------------------------------------------------------------ agent
\* the in-guest agent writes one ExecuteResponse to the open response stream
AgentEmit(r, frame) ==
    /\ agent[r].state = "open"
    /\ vm[r] = "Running"
    /\ Len(agent[r].emitted) < MaxFrames
    /\ agent' = [agent EXCEPT ![r].emitted = Append(@, frame)]
    /\ UNCHANGED <<pc, stack, request, local, retval, vm, response, chan, rx,
                   delivered, result, calls>>
    /\ NoBuild
    /\ UNCHANGED <<events, task>>

\* the agent ends the response stream
AgentClose(r) ==
    /\ agent[r].state = "open"
    /\ vm[r] = "Running"
    /\ agent' = [agent EXCEPT ![r].state = "closed"]
    /\ UNCHANGED <<pc, stack, request, local, retval, vm, response, chan, rx,
                   delivered, result, calls>>
    /\ NoBuild
    /\ UNCHANGED <<events, task>>

\* the transport to the agent breaks while the stream is open
AgentFail(r) ==
    /\ agent[r].state = "open"
    /\ agent' = [agent EXCEPT ![r].state = "error"]
    /\ UNCHANGED <<pc, stack, request, local, retval, vm, response, chan, rx,
                   delivered, result, calls>>
    /\ NoBuild
    /\ UNCHANGED <<events, task>>

\* ----------------------------------------------------------------- caller
\* ReceiverStream::poll_next: the front of the queue
Dequeue(queue) == Head(queue)

\* the caller takes the next item of the RunStream
Receive(r) ==
    /\ rx[r] = "caller"
    /\ chan[r] # <<>>
    /\ delivered' = [delivered EXCEPT ![r] = Append(@, Dequeue(chan[r]))]
    /\ chan' = [chan EXCEPT ![r] = Tail(@)]
    /\ UNCHANGED <<pc, stack, request, local, retval, vm, agent, response, rx,
                   result, calls>>
    /\ NoBuild
    /\ UNCHANGED <<events, task>>

\* the queue is empty and the sender is gone: the RunStream yields None
StreamEnd(r) ==
    /\ rx[r] = "caller"
    /\ chan[r] = <<>>
    /\ pc[r] = "returned"
    /\ rx' = [rx EXCEPT ![r] = "ended"]
    /\ UNCHANGED <<pc, stack, request, local, retval, vm, agent, response, chan,
                   delivered, result, calls>>
    /\ NoBuild
    /\ UNCHANGED <<events, task>>

AwaitPoints == {"connect", "execute", "message", "send"}

\* the caller cancels the rpc: tonic drops the handler's future at the await
\* it is suspended in (dropping response_stream, tx and rx), or, once run has
\* returned, the caller drops the RunStream.  Spawned tasks are not aborted.
CallerDrop(r) ==
    /\ \/ /\ pc[r] \in AwaitPoints
          /\ pc' = [pc EXCEPT ![r] = "cancelled"]
       \/ /\ rx[r] = "caller"
          /\ UNCHANGED pc
    /\ rx' = [rx EXCEPT ![r] = "dropped"]
    /\ chan' = [chan EXCEPT ![r] = <<>>]
    /\ response' = [response EXCEPT ![r] = NoFrame]
    /\ agent' = [agent EXCEPT ![r].state = IF @ = "open" THEN "cancelled" ELSE @]
    /\ UNCHANGED <<stack, request, local, retval, vm, delivered, result, calls>>
    /\ NoBuild
    /\ UNCHANGED <<events, task>>

CallerDropped(r) ==
    \/ pc[r] = "cancelled"
    \/ result[r].kind = "stream" /\ rx[r] = "dropped"

Environment(r) ==
    \/ VmmRunReturns(r)
    \/ \E frame \in FrameVals : AgentEmit(r, frame)
    \/ AgentClose(r)
    \/ AgentFail(r)
    \/ Receive(r)
    \/ StreamEnd(r)
    \/ CallerDrop(r)

\* one Run request, from its arrival to the end of its stream
Next ==
    \E r \in Req :
        \/ /\ \A q \in Req : pc[q] = "idle"
           /\ \E req \in Requests : RunStart(r, req)
        \/ Handler(r)
        \/ Environment(r)

Spec == Init /\ [][Next]_vars

\* Scheduling: tokio polls a ready handler future again, and a caller that
\* keeps its RunStream polls it.  Nothing makes the guest halt, the agent
\* write or the caller cancel.
Fairness ==
    \A r \in Req :
        /\ WF_vars(Handler(r))
        /\ WF_vars(Receive(r) \/ StreamEnd(r))

FairSpec == Spec /\ Fairness

\* Run requests handled concurrently by the multi-threaded runtime, followed
\* over the statements that touch what the requests share: the artifact files
\* and the host network (lines 172-202)
NextRace ==
    \E r \in Req :
        \/ \E req \in FullRequests : RunStart(r, req)
        \/ Resolve(r)
        \/ FromI32(r)
        \/ VmmNew(r)
        \/ VmmConfigure(r)
        \/ SpawnVmm(r)
        \/ VmmRunReturns(r)

SpecRace == Init /\ [][NextRace]_vars

\* ================================================================= claims
\* the frames the agent emitted, as the caller's frame type
Emitted(r) ==
    [i \in 1 .. Len(agent[r].emitted) |-> VmmResponse(agent[r].emitted[i])]

\* the handler of r has ended: it returned, panicked or was dropped
Ended(r) == pc[r] \in {"returned", "panicked", "cancelled"}

\* C1: within one Run request the frames delivered to the caller are at every
\* moment a prefix of the frames the agent emitted, field by field.
C1_DeliveredIsPrefixOfEmitted ==
    \A r \in Req :
        /\ Len(delivered[r]) <= Len(agent[r].emitted)
        /\ \A i \in 1 .. Len(delivered[r]) :
             /\ delivered[r][i].stdout = agent[r].emitted[i].stdout
             /\ delivered[r][i].stderr = agent[r].emitted[i].stderr
             /\ delivered[r][i].exit_code = agent[r].emitted[i].exit_code

\* C1 witness: the caller holds two different frames of one request
C1_Witness ==
    \E r \in Req :
        /\ Len(delivered[r]) >= 2
        /\ delivered[r][1] # delivered[r][2]

\* C2: once the agent has closed its stream, however many frames it emitted,
\* Run returns, the caller receives every frame and its stream ends (unless
\* the caller itself cancelled).
C2_ClosedStreamIsDeliveredAndEnds ==
    \A r \in Req :
        (agent[r].state = "closed")
            ~> (\/ CallerDropped(r)
                \/ rx[r] = "ended" /\ delivered[r] = Emitted(r))

\* C3: when the agent's stream yields k frames and then a transport error, the
\* request ends with those k frames delivered or still queued for the caller,
\* followed by the error.
C3_FramesBeforeErrorAreKept ==
    \A r \in Req :
        (agent[r].state = "error" /\ pc[r] = "returned")
            => /\ result[r].kind = "status" \/ result[r].kind = "stream"
               /\ delivered[r] \o chan[r] = Emitted(r)

\* C4: a request with a language tag outside {0,1,2} causes no build step and
\* no VM, and ends with an invalid-argument status.
C4_UnknownTagRejectedBeforeSideEffects ==
    \A r \in Req :
        (pc[r] # "idle" /\ request[r].language \notin {0, 1, 2})
            => /\ \A p \in Paths : builds[p] = 0
               /\ vm[r] = "none"
               /\ local[r].grpc_client = ""
               /\ Ended(r) => /\ result[r].kind = "status"
                              /\ result[r].code = "InvalidArgument"

\* C5: when the connect to the agent failed, the request ends with an error
\* status, no frame is delivered and the VM of the request is not running.
C5_ConnectFailureFailsRequest ==
    \A r \in Req :
        (local[r].grpc_client = "Err" /\ pc[r] = "returned")
            => /\ result[r].kind = "status"
               /\ delivered[r] = <<>>
               /\ vm[r] # "Running"

\* C6: a request that completed successfully (the agent closed its stream and
\* the caller's stream ended) has no VM still running.
C6_CompletedRequestHasNoRunningVm ==
    \A r \in Req :
        (agent[r].state = "closed" /\ result[r].kind = "stream" /\ rx[r] = "ended")
            => vm[r] = "Terminated"

\* C7: after the caller dropped the output stream, the agent call is
\* eventually cancelled and the VMM task eventually exits.
C7_CallerDropTearsDownVm ==
    \A r \in Req :
        CallerDropped(r) ~> (agent[r].state # "open" /\ vm[r] # "Running")

\* C8: concurrent requests resolving the same missing artifact run its build
\* step once: when no build of a path failed, that path was built at most once.
C8_SingleFlightBuild ==
    \A p \in Paths : (built[p] = builds[p]) => builds[p] <= 1

\* C9: when a build step invoked for a request failed, no VM is constructed
\* for that request and the request ends with an error.
C9_BuildFailureStopsRequest ==
    \A r \in Req :
        failed[r] => /\ vm[r] = "none"
                     /\ pc[r] = "returned" => result[r].kind = "status"

\* calls of one resolver with one input return one path
PathsStable ==
    \A i, j \in 1 .. Len(calls) :
        (calls[i].fn = calls[j].fn /\ calls[i].arg = calls[j].arg)
            => calls[i].path = calls[j].path

\* C10 as stated: over a sequence of resolver calls the returned path is
\* stable and each artifact's build step is invoked at most once.
C10_BuildInvokedAtMostOnce ==
    /\ PathsStable
    /\ \A p \in Paths : builds[p] <= 1

\* C10 amended: over a sequence of resolver calls the returned path is stable,
\* at most one invocation of an artifact's build step produces the file, and
\* no step invokes the build of an artifact whose file exists.
C10_Idempotent ==
    /\ [](PathsStable /\ \A p \in Paths : built[p] <= 1)
    /\ [][\A p \in Paths : p \in files => builds'[p] = builds[p]]_vars

\* C10 witness: a resolver was called twice with the same input, the second
\* call found the file the first one's single build had produced
C10_Witness ==
    \E i, j \in 1 .. Len(calls) :
        /\ i < j
        /\ calls[i].fn = calls[j].fn
        /\ calls[i].arg = calls[j].arg
        /\ calls[i].path \in files
        /\ builds[calls[i].path] = 1

\* the NetworkLease of the VM of r: the arguments run passes to VMM::new
Lease(r) == [host_ip |-> HOST_IP, host_netmask |-> HOST_NETMASK, guest_ip |-> GUEST_IP]

\* the VMM of r exists and has not been destroyed
LiveVm(r) == vm[r] \in {"Fresh", "Configured", "Running"}

\* C11: two requests in flight never both have a live VM on the same host/guest
\* IP pair (their leases are disjoint, or one of them waits).
C11_LiveVmsHaveDisjointLeases ==
    \A r1, r2 \in Req :
        (r1 # r2 /\ LiveVm(r1) /\ LiveVm(r2))
            => /\ Lease(r1).host_ip # Lease(r2).host_ip
               /\ Lease(r1).guest_ip # Lease(r2).guest_ip

\* C12: a handler that ends after the VMM run loop of its request failed ends
\* with the VmmRun error status (unless the caller cancelled it).
C12_VmmRunFailureFailsRequest ==
    [][\A r \in Req :
        (task[r] = "Err" /\ ~Ended(r) /\ pc'[r] \in {"returned", "panicked"})
            => result'[r] = ErrResult(StatusFromVmmErrors("VmmRun"))]_vars

\* C13 as stated: the channel never holds more than 4 frames, and while it
\* holds 4 no further frame is read from the agent's stream.
C13_NoReadWhileChannelFull ==
    /\ [](\A r \in Req : Len(chan[r]) <= ChannelCapacity)
    /\ [][\A r \in Req :
            Len(chan[r]) = ChannelCapacity => agent'[r].read = agent[r].read]_vars

\* C13 amended: the channel never holds more than 4 frames, and while it holds
\* 4 and the handler holds a frame it has read and not yet sent, no further
\* frame is read from the agent's stream (at most one read beyond the full
\* channel).
C13_ChannelBoundedOneReadAhead ==
    /\ [](\A r \in Req : Len(chan[r]) <= ChannelCapacity)
    /\ [][\A r \in Req :
            (Len(chan[r]) = ChannelCapacity /\ response[r] # NoFrame)
                => agent'[r].read = agent[r].read]_vars

\* C13 witness: the channel is full and the handler holds one more frame
C13_Witness ==
    \E r \in Req :
        /\ Len(chan[r]) = ChannelCapacity
        /\ response[r] # NoFrame
        /\ agent[r].read = ChannelCapacity + 1

\* C14: a request with an empty code, env or workload_name causes no external
\* operation and no VM, and ends with an invalid-argument status.
C14_EmptyFieldRejectedBeforeSideEffects ==
    \A r \in Req :
        (pc[r] # "idle" /\ EmptyFields(request[r]) # {})
            => /\ events[r] = <<>>
               /\ \A p \in Paths : builds[p] = 0
               /\ vm[r] = "none"
               /\ Ended(r) => /\ result[r].kind = "status"
                              /\ result[r].code = "InvalidArgument"

\* C15: the name get_agent_request gives a tag of {0,1,2} maps back to that
\* tag, and different tags get different names.
C15_LanguageTagRoundTrip ==
    /\ \A r \in Req :
         local[r].agent_language # ""
            => NameToTag(local[r].agent_language) = request[r].language
    /\ \A t \in 0 .. 2 : NameToTag(AgentLanguage(t)) = t
    /\ \A t1, t2 \in 0 .. 2 : AgentLanguage(t1) = AgentLanguage(t2) => t1 = t2

\* C15 witness: a request with tag 2 for which get_agent_request produced "node"
C15_Witness ==
    \E r \in Req :
        /\ request[r].language = 2
        /\ local[r].agent_language = "node"

\* the operations of handler r with the given names, in the order they happened
IsVmOp(event) == event.op \in {"new", "configure", "spawn"}
VmOps(r) == SelectSeq(events[r], IsVmOp)

IsAgentOp(event) == event.op \in {"connect", "execute"}
AgentOps(r) == SelectSeq(events[r], IsAgentOp)

Failed(r, op) == \E i \in 1 .. Len(events[r]) : events[r][i].op = op /\ ~events[r][i].ok

VmRank(state) ==
    CASE state = "none" -> 0
      [] state = "Fresh" -> 1
      [] state = "Configured" -> 2
      [] state = "Running" -> 3
      [] state = "Terminated" -> 4

\* C16: within one request VMM::new, configure and the spawn of the run task
\* happen at most once each and in this order, each only after the one before
\* succeeded, and the VM's state only moves forward.
C16_VmLifecycleForwardOnly ==
    /\ [](\A r \in Req :
            /\ Len(VmOps(r)) <= 3
            /\ Len(VmOps(r)) >= 1 => VmOps(r)[1].op = "new"
            /\ Len(VmOps(r)) >= 2 => VmOps(r)[2].op = "configure" /\ VmOps(r)[1].ok
            /\ Len(VmOps(r)) >= 3 => VmOps(r)[3].op = "spawn" /\ VmOps(r)[2].ok
            /\ vm[r] = "Configured" => Len(VmOps(r)) = 2
            /\ vm[r] = "Running" => Len(VmOps(r)) = 3
            /\ task[r] # "none" <=> Len(VmOps(r)) = 3)
    /\ [][\A r \in Req :
            vm'[r] # vm[r] => VmRank(vm'[r]) > VmRank(vm[r])]_vars

\* C16 witness: a VM that was created, configured, run in its task and ended
C16_Witness ==
    \E r \in Req :
        /\ vm[r] = "Terminated"
        /\ task[r] \in {"Ok", "Err"}
        /\ Len(VmOps(r)) = 3

\* C17: when VMM::new or configure failed, the handler has returned the
\* matching error status after that single attempt, with no VMM task spawned,
\* no agent call made and no frame delivered.
C17_VmmSetupFailureEndsRequest ==
    \A r \in Req :
        /\ Failed(r, "new")
             => /\ pc[r] = "returned"
                /\ result[r] = [kind |-> "status", code |-> "Internal",
                                message |-> "Error creating VMM"]
                /\ Len(VmOps(r)) = 1
        /\ Failed(r, "configure")
             => /\ pc[r] = "returned"
                /\ result[r] = [kind |-> "status", code |-> "Internal",
                                message |-> "Error configuring VMM"]
                /\ Len(VmOps(r)) = 2
        /\ (Failed(r, "new") \/ Failed(r, "configure"))
             => /\ task[r] = "none"
                /\ AgentOps(r) = <<>>
                /\ agent[r].state = "idle"
                /\ delivered[r] = <<>>
                /\ vm[r] # "Running"

\* C17 witness: configure failed after VMM::new had succeeded
C17_Witness ==
    \E r \in Req : Failed(r, "configure") /\ pc[r] = "returned"

\* C18: in get_initramfs, a run of mkrootfs.sh comes after the file was found
\* absent and after build_agent checked the agent binary (and ran cargo build
\* when it was missing), and it is given the agent binary's path; when the
\* initramfs file was found present, no agent check and no build step follows.
C18_AgentEnsuredBeforeInitramfsBuild ==
    \A r \in Req :
        \A i \in 1 .. Len(events[r]) :
            /\ events[r][i].op = "mkrootfs"
                 => /\ events[r][i].path = AgentPath(CurrDir)
                    /\ \E k \in 1 .. i - 1 :
                         events[r][k].op = "get_initramfs" /\ ~events[r][k].ok
                    /\ \E j \in 1 .. i - 1 :
                         /\ events[r][j].op = "build_agent"
                         /\ \/ events[r][j].ok
                            \/ j + 1 < i /\ events[r][j + 1].op = "cargo_build"
            /\ (events[r][i].op = "get_initramfs" /\ events[r][i].ok)
                 => \A j \in i + 1 .. Len(events[r]) :
                        events[r][j].op \notin {"build_agent", "cargo_build", "mkrootfs"}

\* C18 witness: a get_initramfs call found the file that an earlier call had
\* built after building the agent, and returned without any further operation
C18_Witness ==
    \E r \in Req :
        /\ pc[r] = "direct_ret"
        /\ local[r].fn = "get_initramfs"
        /\ Len(events[r]) = 1
        /\ events[r][1].ok
        /\ builds[AgentPath(CurrDir)] = 1
        /\ builds[retval[r]] = 1

\* C19: a request makes at most one execute call, after a connect that
\* succeeded, and both only after the VMM task was spawned.
C19_ExecuteOnceAfterConnect ==
    \A r \in Req :
        /\ Len(AgentOps(r)) <= 2
        /\ Len(AgentOps(r)) >= 1 => AgentOps(r)[1].op = "connect"
        /\ Len(AgentOps(r)) = 2 => AgentOps(r)[2].op = "execute" /\ AgentOps(r)[1].ok
        /\ \A i \in 1 .. Len(events[r]) :
             IsAgentOp(events[r][i])
                => \E j \in 1 .. i - 1 : events[r][j].op = "spawn"

\* C19 witness: the execute call was made and accepted
C19_Witness ==
    \E r \in Req :
        /\ Len(AgentOps(r)) = 2
        /\ AgentOps(r)[2].ok
        /\ agent[r].state = "open"

\* C20: while the agent's stream is open or the handler is in its read loop,
\* the caller holds no receiver and has taken no frame.
C20_StreamHandedOverAfterLoop ==
    \A r \in Req :
        (agent[r].state = "open" \/ pc[r] \in {"message", "send"})
            => /\ delivered[r] = <<>>
               /\ rx[r] = "handler"

\* C20 witness: two frames are queued while the agent's stream is still open
C20_Witness ==
    \E r \in Req :
        /\ agent[r].state = "open"
        /\ Len(chan[r]) >= 2

====
